---- MODULE Spec2Model ----
(***************************************************************************)
(* Model of the hotkey registry and capture subsystem of                   *)
(* create_rule_admin_gui_simple.py: the hotkey thread that owns            *)
(* RegisterHotKey / UnregisterHotKey and the GetMessageW loop, the         *)
(* Controller (App) that sends it commands and polls its events, and the   *)
(* binding codec.  Text is modelled as a sequence of code points.          *)
(***************************************************************************)
EXTENDS Integers, Sequences, FiniteSets, TLC

(***************************************************************************)
(* Bounds of the model.                                                    *)
(***************************************************************************)
\* longest binding map the hotkeys dialog returns
MaxMapLen == 1
\* commands the Controller may enqueue in one run
MaxCmds == 3
\* events from outside the program in one run: key presses that hit a hot
\* key, hot keys taken or released by other programs, error results of
\* GetMessageW, WM_QUIT posted from outside
MaxEnvEvents == 2
\* keys pressed or released during one capture session
MaxKeyEvents == 5
\* longest text given to parse_hotkey_string, over the characters of
\* TextChars
MaxTextLen == 3

(***************************************************************************)
(* Program constants.                                                      *)
(***************************************************************************)
MOD_ALT == 1
MOD_CONTROL == 2
MOD_SHIFT == 4
MOD_WIN == 8

VK_MIN == 1
VK_MAX == 254

ACTION_IDS == [create |-> 1, toggle |-> 2, delete |-> 3, suspend_enh |-> 4]

\* "Ctrl+Alt+C", "Ctrl+Alt+T", "Ctrl+Alt+D", "Ctrl+Alt+E"
S_CtrlAltC == <<67, 116, 114, 108, 43, 65, 108, 116, 43, 67>>
S_CtrlAltT == <<67, 116, 114, 108, 43, 65, 108, 116, 43, 84>>
S_CtrlAltD == <<67, 116, 114, 108, 43, 65, 108, 116, 43, 68>>
S_CtrlAltE == <<67, 116, 114, 108, 43, 65, 108, 116, 43, 69>>

\* a binding map is a Python dict: a sequence of <<key, text>> in insertion
\* order, with no key twice
DEFAULT_HOTKEYS ==
    << <<"create", S_CtrlAltC>>, <<"toggle", S_CtrlAltT>>,
       <<"delete", S_CtrlAltD>>, <<"suspend_enh", S_CtrlAltE>> >>

\* NAMED_VK: virtual-key code -> name
NAMED_VK ==
    (32 :> <<83, 112, 97, 99, 101>>) @@ (9 :> <<84, 97, 98>>) @@
    (13 :> <<69, 110, 116, 101, 114>>) @@ (27 :> <<69, 115, 99>>) @@
    (38 :> <<85, 112>>) @@ (40 :> <<68, 111, 119, 110>>) @@
    (37 :> <<76, 101, 102, 116>>) @@ (39 :> <<82, 105, 103, 104, 116>>) @@
    (45 :> <<73, 110, 115>>) @@ (46 :> <<68, 101, 108>>) @@
    (36 :> <<72, 111, 109, 101>>) @@ (35 :> <<69, 110, 100>>) @@
    (33 :> <<80, 97, 103, 101, 85, 112>>) @@
    (34 :> <<80, 97, 103, 101, 68, 111, 119, 110>>)

\* the table `named` of parse_hotkey_string: lower-case name -> code
named ==
    (<<115, 112, 97, 99, 101>> :> 32) @@ (<<116, 97, 98>> :> 9) @@
    (<<101, 110, 116, 101, 114>> :> 13) @@
    (<<114, 101, 116, 117, 114, 110>> :> 13) @@
    (<<101, 115, 99>> :> 27) @@ (<<101, 115, 99, 97, 112, 101>> :> 27) @@
    (<<117, 112>> :> 38) @@ (<<100, 111, 119, 110>> :> 40) @@
    (<<108, 101, 102, 116>> :> 37) @@ (<<114, 105, 103, 104, 116>> :> 39) @@
    (<<105, 110, 115>> :> 45) @@ (<<100, 101, 108>> :> 46) @@
    (<<104, 111, 109, 101>> :> 36) @@ (<<101, 110, 100>> :> 35) @@
    (<<112, 97, 103, 101, 117, 112>> :> 33) @@
    (<<112, 97, 103, 101, 100, 111, 119, 110>> :> 34)

(***************************************************************************)
(* Python's str operations on code points 0..255.                          *)
(***************************************************************************)
\* str.isspace of one character
IsSpace(c) == c \in {9, 10, 11, 12, 13, 28, 29, 30, 31, 32, 133, 160}

\* str.isdigit of one character (the superscripts 178, 179, 185 included)
IsDigitChar(c) == c \in (48..57) \cup {178, 179, 185}

\* str.lower of one character
LowerChar(c) ==
    IF c \in 65..90 \/ (c \in 192..222 /\ c # 215) THEN c + 32 ELSE c

\* str.upper of one character, a string: 223 becomes "SS"
UpperChar(c) ==
    IF c \in 97..122 \/ (c \in 224..254 /\ c # 247) THEN <<c - 32>>
    ELSE IF c = 181 THEN <<924>>
    ELSE IF c = 223 THEN <<83, 83>>
    ELSE IF c = 255 THEN <<376>>
    ELSE <<c>>

RECURSIVE Lower(_)
Lower(s) == IF s = <<>> THEN <<>> ELSE <<LowerChar(Head(s))>> \o Lower(Tail(s))

RECURSIVE Upper(_)
Upper(s) == IF s = <<>> THEN <<>> ELSE UpperChar(Head(s)) \o Upper(Tail(s))

RECURSIVE LStrip(_)
LStrip(s) ==
    IF s # <<>> /\ IsSpace(Head(s)) THEN LStrip(Tail(s)) ELSE s

RECURSIVE RStrip(_)
RStrip(s) ==
    IF s # <<>> /\ IsSpace(s[Len(s)]) THEN RStrip(SubSeq(s, 1, Len(s) - 1))
    ELSE s

\* str.strip()
Strip(s) == RStrip(LStrip(s))

\* s.split('+'): the pieces between the '+' characters, empty ones included
RECURSIVE SplitPlus(_, _)
SplitPlus(s, cur) ==
    IF s = <<>> THEN <<cur>>
    ELSE IF Head(s) = 43 THEN <<cur>> \o SplitPlus(Tail(s), <<>>)
    ELSE SplitPlus(Tail(s), Append(cur, Head(s)))

\* [p.strip() for p in s.split('+') if p.strip()]
RECURSIVE StripNonEmpty(_)
StripNonEmpty(ps) ==
    IF ps = <<>> THEN <<>>
    ELSE IF Strip(Head(ps)) = <<>> THEN StripNonEmpty(Tail(ps))
    ELSE <<Strip(Head(ps))>> \o StripNonEmpty(Tail(ps))

\* str.isdigit(): not empty and every character a digit
IsDigit(s) == s # <<>> /\ \A i \in 1..Len(s) : IsDigitChar(s[i])

\* int(s) of a string of ASCII digits
RECURSIVE IntOf(_)
IntOf(s) ==
    IF s = <<>> THEN 0
    ELSE 10 * IntOf(SubSeq(s, 1, Len(s) - 1)) + (s[Len(s)] - 48)

\* str(n) of a number 0..99
StrOf(n) == IF n < 10 THEN <<48 + n>> ELSE <<48 + (n \div 10), 48 + (n % 10)>>

\* m | bit, for a one-bit mask
BitOr(m, bit) == IF (m \div bit) % 2 = 1 THEN m ELSE m + bit

\* m & bit, as a truth value
BitAnd(m, bit) == (m \div bit) % 2 = 1

(***************************************************************************)
(* Binding codec.                                                          *)
(***************************************************************************)
ParseOk(mods, vk) == [ok |-> TRUE, mods |-> mods, vk |-> vk, err |-> ""]
ParseErr(e) == [ok |-> FALSE, mods |-> 0, vk |-> 0, err |-> e]

\* the loop over parts: the modifier mask, and the last token that is no
\* modifier (<<>> when there is none: a part is never empty)
RECURSIVE ScanParts(_, _, _)
ScanParts(parts, mods, key) ==
    IF parts = <<>> THEN [mods |-> mods, key |-> key]
    ELSE LET p == Head(parts)
             pp == Lower(p)
         IN  IF pp \in {<<99, 116, 114, 108>>, <<99, 111, 110, 116, 114, 111, 108>>}
                 THEN ScanParts(Tail(parts), BitOr(mods, MOD_CONTROL), key)
             ELSE IF pp = <<97, 108, 116>>
                 THEN ScanParts(Tail(parts), BitOr(mods, MOD_ALT), key)
             ELSE IF pp = <<115, 104, 105, 102, 116>>
                 THEN ScanParts(Tail(parts), BitOr(mods, MOD_SHIFT), key)
             ELSE IF pp \in {<<119, 105, 110>>, <<119, 105, 110, 100, 111, 119, 115>>}
                 THEN ScanParts(Tail(parts), BitOr(mods, MOD_WIN), key)
             ELSE ScanParts(Tail(parts), mods, p)

\* the code of the key token
KeyCode(mods, key) ==
    IF Upper(key)[1] = 70 /\ IsDigit(Tail(key)) THEN
        IF \E i \in 2..Len(key) : key[i] \notin 48..57
        THEN ParseErr("int() ValueError")
        ELSE LET n == IntOf(Tail(key))
             IN  IF 1 <= n /\ n <= 24 THEN ParseOk(mods, 112 + (n - 1))
                 ELSE ParseErr("Invalid function key")
    ELSE IF Len(key) = 1 THEN
        IF Len(Upper(key)) = 1 THEN ParseOk(mods, Upper(key)[1])
        ELSE ParseErr("ord() TypeError")
    ELSE IF Lower(key) \in DOMAIN named THEN ParseOk(mods, named[Lower(key)])
    ELSE ParseErr("Unknown key name")

parse_hotkey_string(s0) ==
    LET s == Strip(s0)
    IN  IF s = <<>> THEN ParseErr("Empty hotkey")
        ELSE LET parts == StripNonEmpty(SplitPlus(s, <<>>))
                 r == ScanParts(parts, 0, <<>>)
             IN  IF r.key = <<>> THEN ParseErr("No key specified")
                 ELSE KeyCode(r.mods, r.key)

\* "+".join(parts)
RECURSIVE JoinPlus(_)
JoinPlus(parts) ==
    IF parts = <<>> THEN <<>>
    ELSE IF Len(parts) = 1 THEN Head(parts)
    ELSE Head(parts) \o <<43>> \o JoinPlus(Tail(parts))

hotkey_to_string(mods, vk) ==
    LET m == (IF BitAnd(mods, MOD_CONTROL) THEN << <<67, 116, 114, 108>> >> ELSE <<>>)
             \o (IF BitAnd(mods, MOD_ALT) THEN << <<65, 108, 116>> >> ELSE <<>>)
             \o (IF BitAnd(mods, MOD_SHIFT) THEN << <<83, 104, 105, 102, 116>> >> ELSE <<>>)
             \o (IF BitAnd(mods, MOD_WIN) THEN << <<87, 105, 110>> >> ELSE <<>>)
        k == IF vk \in DOMAIN NAMED_VK THEN NAMED_VK[vk]
             ELSE IF 112 <= vk /\ vk <= 135 THEN <<70>> \o StrOf(vk - 111)
             ELSE UpperChar(vk)
    IN  JoinPlus(Append(m, k))


(***************************************************************************)
(* Binding maps (dict: a sequence of <<key, text>> pairs).                 *)
(***************************************************************************)
Keys(m) == {m[i][1] : i \in 1..Len(m)}

\* dict.get(key): the text of key, <<>> when absent
Value(m, key) ==
    IF key \in Keys(m) THEN m[CHOOSE i \in 1..Len(m) : m[i][1] = key][2]
    ELSE <<>>

IsDict(m) == \A i, j \in 1..Len(m) : m[i][1] = m[j][1] => i = j

\* for k, v in DEFAULT_HOTKEYS.items(): if k not in h: h[k] = v
RECURSIVE FillDefaults(_, _)
FillDefaults(h, defaults) ==
    IF defaults = <<>> THEN h
    ELSE IF Head(defaults)[1] \in Keys(h) THEN FillDefaults(h, Tail(defaults))
    ELSE FillDefaults(Append(h, Head(defaults)), Tail(defaults))

\* the hotkeys file: absent, or the dict it holds
NoFile == [exists |-> FALSE, data |-> <<>>]

load_hotkeys(f) ==
    IF ~f.exists THEN DEFAULT_HOTKEYS ELSE FillDefaults(f.data, DEFAULT_HOTKEYS)

\* the file after save_hotkeys(h): json.dump(h, f, indent=2)
save_hotkeys(h) == [exists |-> TRUE, data |-> h]

\* the binding a text stands for
Binding(text) ==
    LET p == parse_hotkey_string(text) IN [mods |-> p.mods, vk |-> p.vk]

\* the (action id, binding) pairs a binding map asks for
BindingsOf(m) ==
    {<<ACTION_IDS[m[i][1]], Binding(m[i][2])>> :
        i \in {j \in 1..Len(m) : m[j][1] \in DOMAIN ACTION_IDS}}

(***************************************************************************)
(* Inputs.                                                                 *)
(***************************************************************************)
\* "Ctrl+Alt" : no key
S_CtrlAlt == <<67, 116, 114, 108, 43, 65, 108, 116>>

\* the keys and texts the hotkeys dialog may return
DialogKeys == {"create", "toggle"}
DialogTexts == {S_CtrlAltC, S_CtrlAlt}

DialogResults ==
    {m \in UNION {[1..n -> DialogKeys \X DialogTexts] : n \in 1..MaxMapLen} :
        IsDict(m)}

\* the hotkeys files the program may find when it starts: none, or one
\* that also holds a key that is no action
FileWithExtra ==
    save_hotkeys(<< <<"create", S_CtrlAltC>>, <<"extra", S_CtrlAltE>> >>)
Files == {NoFile, FileWithExtra}

\* the combinations the user presses
Combos == {Binding(S_CtrlAltC), Binding(S_CtrlAltT)}

\* the combinations other programs register and release
ForeignCombos == {Binding(S_CtrlAltT)}

(***************************************************************************)
(* State.                                                                  *)
(***************************************************************************)
VARIABLES
    \* hotkey thread (hotkey_thread_func)
    rpc,             \* where the thread is
    cur,             \* cmd: the command being processed
    idx,             \* position of the loop over hotmap.items()
    failed,          \* failed: None or (action, reason)
    registered_ids,  \* registered_ids
    msg,             \* msg: the message GetMessageW returned
    \* operating system
    osHot,           \* hot keys of the thread: <<id, binding>> (Registered Set)
    foreign,         \* combinations other programs own
    msgQ,            \* the thread's message queue
    \* queues
    cmd_q,           \* App.cmd_q
    event_q,         \* App.event_q
    resp,            \* the response queue of each command, by command number
    \* Controller (App)
    cpc,             \* where the Controller is
    caller,          \* who called register_all_hotkeys
    hotkeys,         \* App.hotkeys
    old_map,         \* old_map of open_hotkeys_dialog
    myCmd,           \* the command whose reply the Controller waits for
    file,            \* the hotkeys file
    recording,       \* RECORDING_PAUSE_HOTKEYS
    ui,              \* number of message boxes shown about the hotkey thread
    dispatched,      \* action ids handed to handle_hotkey
    \* history
    lastResult,      \* outcome of the last command the thread finished
    lastOkMap,       \* map of the last Register answered ok
    calls,           \* RegisterHotKey calls of the Register in progress
    owed,            \* hotkey messages retrieved and not yet reported
    replied,         \* numbers of the commands whose reply the thread has put
    during,          \* for each item of event_q: put while the flag was set
    lastPut,         \* map of the last Register the Controller enqueued
    nCmds,           \* commands enqueued so far
    nEnv,            \* events from outside the program so far
    \* capture session (capture_hotkey_dialog)
    held,            \* the keys the user holds down
    captures,        \* captures
    last_non_mod_vk, \* state["last_non_mod_vk"], 0 for None
    last_mods,       \* state["last_mods"]
    pressed_non_mod, \* state["pressed_non_mod"]
    done,            \* state["done"]
    prev_non_mod,    \* prev_non_mod
    capResult,       \* what capture_hotkey_dialog returned
    ended,           \* what ended the session
    hist,            \* history: the keys held at each poll
    unseen,          \* history: key changes since the last poll
    missed,          \* history: a key change no poll has seen
    lastCommit,      \* history: the last (vk, mods) given to commit_capture
    nKeys,           \* key changes so far
    \* binding codec
    codec_b,         \* a binding
    codec_s,         \* a text
    codec_out        \* what the codec made of them

vars == <<rpc, cur, idx, failed, registered_ids, msg, osHot, foreign, msgQ,
          cmd_q, event_q, resp, cpc, caller, hotkeys, old_map, myCmd, file,
          recording, ui, dispatched, lastResult, lastOkMap, calls, owed,
          replied, during, lastPut, nCmds, nEnv,
          held, captures, last_non_mod_vk, last_mods, pressed_non_mod, done,
          prev_non_mod, capResult, ended, hist, unseen, missed, lastCommit,
          nKeys,
          codec_b, codec_s, codec_out>>

regVars == <<rpc, cur, idx, failed, registered_ids, msg>>
ctlVars == <<cpc, caller, hotkeys, old_map, myCmd, file, recording, ui, dispatched>>
histVars == <<lastResult, lastOkMap, calls, owed>>
ghostVars == <<replied, during, lastPut>>
cntVars == <<nCmds, nEnv>>
appVars == <<regVars, osHot, foreign, msgQ, cmd_q, event_q, resp, ctlVars,
             histVars, ghostVars, cntVars>>
capVars == <<held, captures, last_non_mod_vk, last_mods, pressed_non_mod, done,
             prev_non_mod, capResult, ended, hist, unseen, missed, lastCommit,
             nKeys>>
codecVars == <<codec_b, codec_s, codec_out>>

NoFail == [action |-> "", reason |-> ""]
\* capture_hotkey_dialog has not returned; it returned None; it returned l
NotReturned == [tag |-> "running", list |-> <<>>]
ReturnedNone == [tag |-> "None", list |-> <<>>]
ReturnedList(l) == [tag |-> "list", list |-> l]
NoCommit == [vk |-> 0, mods |-> 0]
NoOutput == [op |-> "none", text |-> <<>>, parsed |-> [ok |-> FALSE, mods |-> 0, vk |-> 0, err |-> ""]]
\* a call of the codec that is to be made
Pending(op) == [op |-> op, text |-> <<>>, parsed |-> [ok |-> FALSE, mods |-> 0, vk |-> 0, err |-> ""]]
NoCmd == [type |-> "none", map |-> <<>>, id |-> 0]
NoMsg == [message |-> "none", wParam |-> 0]
NoReply == [tag |-> "none", action |-> "", reason |-> ""]
ReplyOk == [tag |-> "ok", action |-> "", reason |-> ""]
ReplyStopped == [tag |-> "stopped", action |-> "", reason |-> ""]
ReplyFailed(f) == [tag |-> "failed", action |-> f.action, reason |-> f.reason]

\* WM_HOTKEY, WAKE_MSG and WM_QUIT messages
HotkeyMsg(aid) == [message |-> "WM_HOTKEY", wParam |-> aid]
WakeMsg == [message |-> "WAKE_MSG", wParam |-> 0]
QuitMsg == [message |-> "WM_QUIT", wParam |-> 0]

\* the thread has left hotkey_thread_func
Exited == rpc \in {"returned", "quit", "crashed"}

\* the program after App.__init__ has started the thread and loaded the
\* hotkeys from one of the files fs
AppStart(fs) ==
    /\ rpc = "drain" /\ cur = NoCmd /\ idx = 0 /\ failed = NoFail
    /\ registered_ids = <<>> /\ msg = NoMsg
    /\ osHot = {} /\ foreign = {} /\ msgQ = <<>>
    /\ cmd_q = <<>> /\ event_q = <<>>
    /\ resp = [i \in 1..MaxCmds |-> NoReply]
    /\ cpc = "reg_put" /\ caller = "init"
    /\ file \in fs
    /\ hotkeys = load_hotkeys(file)
    /\ old_map = <<>> /\ myCmd = 0
    /\ recording = FALSE /\ ui = 0 /\ dispatched = <<>>
    /\ lastResult = "none" /\ lastOkMap = <<>> /\ calls = <<>> /\ owed = 0
    /\ replied = {} /\ during = <<>> /\ lastPut = <<>>
    /\ nCmds = 0 /\ nEnv = 0

\* no capture session has polled yet
CaptureStart ==
    /\ held = {} /\ captures = <<>>
    /\ last_non_mod_vk = 0 /\ last_mods = 0 /\ pressed_non_mod = FALSE
    /\ done = FALSE /\ prev_non_mod = {}
    /\ capResult = NotReturned /\ ended = "no"
    /\ hist = <<>> /\ unseen = 0 /\ missed = FALSE /\ lastCommit = NoCommit
    /\ nKeys = 0

\* the codec has converted nothing
CodecIdle ==
    /\ codec_b = [mods |-> 0, vk |-> 0] /\ codec_s = <<>> /\ codec_out = NoOutput

Init == AppStart(Files) /\ CaptureStart /\ CodecIdle


(***************************************************************************)
(* Operating system: the hot keys of the thread.                           *)
(***************************************************************************)
\* a call that unregisters nothing
UnregisterHotKey_Nothing(hot, aid) == hot

\* UnregisterHotKey(None, aid)
UnregisterHotKey(hot, aid) == {h \in hot : h[1] # aid}

\* for aid in registered_ids: UnregisterHotKey(None, aid)
RECURSIVE UnregisterAll(_, _)
UnregisterAll(hot, ids) ==
    IF ids = <<>> THEN hot
    ELSE UnregisterAll(UnregisterHotKey(hot, Head(ids)), Tail(ids))

\* a loop that stops after the first id
UnregisterPrevious_FirstOnly(hot, ids) ==
    IF ids = <<>> THEN hot ELSE UnregisterHotKey(hot, Head(ids))

\* "unregister previous": for aid in list(registered_ids):
\* UnregisterHotKey(None, aid)
UnregisterPrevious(hot, ids) == UnregisterAll(hot, ids)

\* RegisterHotKey succeeds unless the combination is already a hot key, of
\* this thread or of another program
RegisterHotKeyOk(hot, others, b) ==
    b \notin others /\ \A h \in hot : h[2] # b

(***************************************************************************)
(* Hotkey thread: hotkey_thread_func.  A step of the thread ends where it  *)
(* next touches what it shares: the command queue, the hot keys, a         *)
(* response queue, the message queue or the event queue.                   *)
(***************************************************************************)
\* the sequence q without its i-th element
Without(q, i) == SubSeq(q, 1, i - 1) \o SubSeq(q, i + 1, Len(q))

\* a queue that hands out the newest command
Taken_Newest(q) == Len(q)

\* the position in q of the command cmd_queue.get_nowait() returns:
\* queue.Queue is first in, first out
Taken(q) == 1

\* cmd = cmd_queue.get_nowait() and the branch on cmd[0]; for "register":
\* "unregister previous", registered_ids.clear(), failed = None
GetCommand ==
    /\ rpc = "drain"
    /\ IF cmd_q = <<>>
       THEN /\ rpc' = "wait"
            /\ UNCHANGED <<cur, cmd_q, osHot, registered_ids, idx, failed>>
       ELSE /\ cur' = cmd_q[Taken(cmd_q)]
            /\ cmd_q' = Without(cmd_q, Taken(cmd_q))
            /\ IF cmd_q[Taken(cmd_q)].type = "register"
               THEN /\ osHot' = UnregisterPrevious(osHot, registered_ids)
                    /\ registered_ids' = <<>>
                    /\ idx' = 1
                    /\ failed' = NoFail
                    /\ rpc' = IF Len(cmd_q[Taken(cmd_q)].map) = 0 THEN "reg_finish"
                              ELSE "reg_loop"
               ELSE /\ rpc' = "stop"
                    /\ UNCHANGED <<osHot, registered_ids, idx, failed>>
    /\ UNCHANGED <<capVars, codecVars, ghostVars, msg, foreign, msgQ, event_q, resp, ctlVars, histVars,
                   cntVars>>

\* a loop without its breaks
LoopContinues_NoBreak(f, i, m) == i < Len(m)

\* the loop goes on to the next entry: no break was taken and one is left
LoopContinues(f, i, m) == f = NoFail /\ i < Len(m)

\* what one pass of "for action, hk_str in hotmap.items()" finds:
\* the failure, or NoFail when RegisterHotKey succeeded
EntryOutcome(action, hk_str, hot, others) ==
    IF action \notin DOMAIN ACTION_IDS
        THEN [action |-> action, reason |-> "Unknown action id"]
    ELSE IF ~parse_hotkey_string(hk_str).ok
        THEN [action |-> action, reason |-> parse_hotkey_string(hk_str).err]
    ELSE IF ~RegisterHotKeyOk(hot, others, Binding(hk_str))
        THEN [action |-> action, reason |-> "RegisterHotKey failed"]
    ELSE NoFail

\* the pass called RegisterHotKey
CallsOs(action, hk_str) ==
    action \in DOMAIN ACTION_IDS /\ parse_hotkey_string(hk_str).ok

\* one pass of the loop over hotmap.items()
RegisterEntry ==
    /\ rpc = "reg_loop"
    /\ LET action == cur.map[idx][1]
           hk_str == cur.map[idx][2]
           f == EntryOutcome(action, hk_str, osHot, foreign)
       IN  /\ failed' = IF f = NoFail THEN failed ELSE f
           /\ IF f = NoFail
              THEN /\ osHot' = osHot \cup {<<ACTION_IDS[action], Binding(hk_str)>>}
                   /\ registered_ids' = Append(registered_ids, ACTION_IDS[action])
              ELSE UNCHANGED <<osHot, registered_ids>>
           /\ calls' = IF CallsOs(action, hk_str)
                       THEN Append(calls, [action |-> action, ok |-> f = NoFail])
                       ELSE calls
           /\ IF LoopContinues(IF f = NoFail THEN failed ELSE f, idx, cur.map)
              THEN idx' = idx + 1 /\ rpc' = "reg_loop"
              ELSE idx' = idx /\ rpc' = "reg_finish"
    /\ UNCHANGED <<capVars, codecVars, ghostVars, cur, msg, foreign, msgQ, cmd_q, event_q, resp, ctlVars,
                   lastResult, lastOkMap, owed, cntVars>>

\* a failure path without the rollback
RolledBack_Kept(hot, ids, f) == hot

\* "rollback": what is left of the thread's hot keys after "if failed:"
RolledBack(hot, ids, f) == IF f = NoFail THEN hot ELSE UnregisterAll(hot, ids)

\* the reply of a Register
RegisterReply(f) == IF f = NoFail THEN ReplyOk ELSE ReplyFailed(f)

\* "if failed:" rollback, registered_ids.clear(), resp_q.put(("failed", ...));
\* "else:" resp_q.put(("ok",)).  The locals of the command are dead from
\* here on and are reset.
FinishRegister ==
    /\ rpc = "reg_finish"
    /\ osHot' = RolledBack(osHot, registered_ids, failed)
    /\ registered_ids' = IF failed = NoFail THEN registered_ids ELSE <<>>
    /\ resp' = [resp EXCEPT ![cur.id] = RegisterReply(failed)]
    /\ lastResult' = RegisterReply(failed).tag
    /\ lastOkMap' = IF failed = NoFail THEN cur.map ELSE lastOkMap
    /\ rpc' = "drain"
    /\ cur' = NoCmd /\ idx' = 0 /\ failed' = NoFail /\ calls' = <<>>
    /\ replied' = replied \cup {cur.id}
    /\ UNCHANGED <<capVars, codecVars, during, lastPut, msg, foreign, msgQ, cmd_q, event_q, ctlVars, owed, cntVars>>

\* a thread that goes on with its loop after a Stop
AfterStop_LoopsOn == "drain"

\* where the thread is after a Stop: "return", the function has ended
AfterStop == "returned"

\* "stop": unregister every id, registered_ids.clear(),
\* cmd[1].put(("stopped",)), PostThreadMessageW(tid, WM_QUIT), return
Stop ==
    /\ rpc = "stop"
    /\ osHot' = UnregisterAll(osHot, registered_ids)
    /\ registered_ids' = <<>>
    /\ resp' = [resp EXCEPT ![cur.id] = ReplyStopped]
    /\ msgQ' = Append(msgQ, QuitMsg)
    /\ lastResult' = "stopped"
    /\ rpc' = AfterStop
    /\ cur' = NoCmd
    /\ replied' = replied \cup {cur.id}
    /\ UNCHANGED <<capVars, codecVars, during, lastPut, idx, failed, msg, foreign, cmd_q, event_q, ctlVars,
                   lastOkMap, calls, owed, cntVars>>

\* a loop that calls GetMessageW again after its error result
AfterWaitError_WaitsAgain == "wait"

\* where the loop goes when GetMessageW returned -1, after the error event
AfterWaitError == "drain"

\* a loop that calls GetMessageW again without looking at the commands
AfterMessage_WaitsAgain(m) == IF m.message = "WM_QUIT" THEN "quit" ELSE "wait"

\* where the loop goes after a message that is no WM_HOTKEY: WM_QUIT
\* breaks, any other message ends the iteration and the commands are
\* looked at again
AfterMessage(m) == IF m.message = "WM_QUIT" THEN "quit" ELSE "drain"

\* res = GetMessageW(...) returns a message (0 for WM_QUIT: break).
\* A message that is no WM_HOTKEY is translated, dispatched and the loop
\* starts over.
GetMessage ==
    /\ rpc = "wait"
    /\ msgQ # <<>>
    /\ msgQ' = Tail(msgQ)
    /\ IF Head(msgQ).message = "WM_HOTKEY"
       THEN msg' = Head(msgQ) /\ owed' = owed + 1 /\ rpc' = "got_hotkey"
       ELSE /\ UNCHANGED <<msg, owed>>
            /\ rpc' = AfterMessage(Head(msgQ))
    /\ UNCHANGED <<capVars, codecVars, ghostVars, cur, idx, failed, registered_ids, osHot, foreign, cmd_q,
                   event_q, resp, ctlVars, lastResult, lastOkMap, calls,
                   cntVars>>

\* res = GetMessageW(...) returns -1: event_queue.put(("error", ...)),
\* continue
GetMessageError ==
    /\ rpc = "wait"
    /\ nEnv < MaxEnvEvents
    /\ nEnv' = nEnv + 1
    /\ event_q' = Append(event_q, [kind |-> "error", id |-> 0])
    /\ rpc' = AfterWaitError
    /\ during' = Append(during, recording)
    /\ UNCHANGED <<capVars, codecVars, replied, lastPut, cur, idx, failed, registered_ids, msg, osHot, foreign, msgQ,
                   cmd_q, resp, ctlVars, histVars, nCmds>>

\* a thread that reports no hotkey message
FiredEvents_None(m) == <<>>

\* the events the thread enqueues for a WM_HOTKEY message
FiredEvents(m) == <<[kind |-> "hotkey", id |-> m.wParam]>>

\* if msg.message == WM_HOTKEY: event_queue.put(("hotkey", int(msg.wParam)))
PutHotkeyEvent ==
    /\ rpc = "got_hotkey"
    /\ event_q' = event_q \o FiredEvents(msg)
    /\ owed' = owed - Len(FiredEvents(msg))
    /\ rpc' = "dispatch"
    /\ during' = during \o [i \in 1..Len(FiredEvents(msg)) |-> recording]
    /\ UNCHANGED <<capVars, codecVars, replied, lastPut, cur, idx, failed, registered_ids, msg, osHot, foreign, msgQ,
                   cmd_q, resp, ctlVars, lastResult, lastOkMap, calls, cntVars>>

\* TranslateMessage, DispatchMessageW, and back to the top of the loop
Dispatch ==
    /\ rpc = "dispatch"
    /\ rpc' = "drain"
    /\ msg' = NoMsg
    /\ UNCHANGED <<capVars, codecVars, ghostVars, cur, idx, failed, registered_ids, osHot, foreign, msgQ,
                   cmd_q, event_q, resp, ctlVars, histVars, cntVars>>

\* "except Exception": a foreign call of the loop raised (RegisterHotKey,
\* TranslateMessage or DispatchMessageW).  The handler enqueues the error,
\* unregisters the ids and the thread ends.
ExceptionHandler ==
    /\ rpc \in {"reg_loop", "dispatch"}
    /\ event_q' = Append(event_q, [kind |-> "error", id |-> 1])
    /\ osHot' = UnregisterAll(osHot, registered_ids)
    /\ lastResult' = "crashed"
    /\ rpc' = "crashed"
    /\ cur' = NoCmd /\ idx' = 0 /\ failed' = NoFail /\ calls' = <<>>
    /\ msg' = NoMsg
    /\ during' = Append(during, recording)
    /\ UNCHANGED <<capVars, codecVars, replied, lastPut, registered_ids, foreign, msgQ, cmd_q, resp, ctlVars,
                   lastOkMap, owed, cntVars>>

\* the steps the thread takes by itself
RegistryRuns ==
    \/ GetCommand \/ RegisterEntry \/ FinishRegister \/ Stop
    \/ GetMessage \/ PutHotkeyEvent \/ Dispatch

RegistryNext == RegistryRuns \/ GetMessageError \/ ExceptionHandler


(***************************************************************************)
(* Controller: App.                                                        *)
(***************************************************************************)
\* a Controller that posts no wake-up message
PostWake_Never(q) == q

\* PostThreadMessageW(tid, WAKE_MSG, 0, 0): fails when the thread has ended
PostWake(q) == IF Exited THEN q ELSE Append(q, WakeMsg)

\* register_all_hotkeys: self.cmd_q.put(("register", self.hotkeys.copy(), resp))
RegPut ==
    /\ cpc = "reg_put"
    /\ nCmds' = nCmds + 1
    /\ cmd_q' = Append(cmd_q, [type |-> "register", map |-> hotkeys, id |-> nCmds + 1])
    /\ myCmd' = nCmds + 1
    /\ cpc' = "reg_post"
    /\ lastPut' = hotkeys
    /\ UNCHANGED <<capVars, codecVars, replied, during, regVars, osHot, foreign, msgQ, event_q, resp, caller,
                   hotkeys, old_map, file, recording, ui, dispatched,
                   histVars, nEnv>>

\* register_all_hotkeys: PostThreadMessageW(tid, WAKE_MSG, 0, 0)
RegPost ==
    /\ cpc = "reg_post"
    /\ msgQ' = PostWake(msgQ)
    /\ cpc' = "reg_wait"
    /\ UNCHANGED <<capVars, codecVars, ghostVars, regVars, osHot, foreign, cmd_q, event_q, resp, caller,
                   hotkeys, old_map, myCmd, file, recording, ui, dispatched,
                   histVars, cntVars>>

\* a get without a timeout: it returns when there is a reply
GetReturns_NoTimeout(r) == r.tag # "none"

\* resp.get(timeout=3.0), resp.get(timeout=1.0): the call ends whatever is
\* in the slot r, with the reply or with queue.Empty when the time is up
GetReturns(r) == TRUE

\* the value register_all_hotkeys returns for the reply r (NoReply: the
\* wait timed out)
RegisterResult(r) == r.tag = "ok"

\* the message boxes register_all_hotkeys shows for the reply r
RegisterBoxes(r) ==
    IF r.tag = "ok" THEN 0
    ELSE IF r.tag = "none" THEN 1   \* showwarning: no response
    ELSE 1                          \* showerror: registration failed

\* a dialog flow that saves whatever register_all_hotkeys returned
AfterDialogRegister_Save(ok) == "dlg_save"

\* where open_hotkeys_dialog goes after its first register_all_hotkeys
AfterDialogRegister(ok) == IF ok THEN "dlg_save" ELSE "reg_put"

\* register_all_hotkeys: r = resp.get(timeout=3.0) and what follows, up to
\* the return into the caller
RegWait ==
    /\ cpc = "reg_wait"
    /\ GetReturns(resp[myCmd])
    /\ LET r == resp[myCmd]
           ok == RegisterResult(r)
           h1 == IF r.tag = "failed" THEN load_hotkeys(file) ELSE hotkeys
       IN  /\ ui' = ui + RegisterBoxes(r)
           /\ IF caller = "dlg1"
              THEN /\ cpc' = AfterDialogRegister(ok)
                   /\ hotkeys' = IF ok THEN h1 ELSE old_map
                   /\ caller' = IF ok THEN caller ELSE "dlg2"
              ELSE /\ cpc' = "idle"
                   /\ hotkeys' = h1
                   /\ caller' = caller
           /\ resp' = [resp EXCEPT ![myCmd] = NoReply]
    /\ UNCHANGED <<capVars, codecVars, ghostVars, regVars, osHot, foreign, msgQ, cmd_q, event_q, old_map,
                   myCmd, file, recording, dispatched, histVars, cntVars>>

\* open_hotkeys_dialog: dlg = HotkeysDialog(self.root, self.hotkeys)
OpenHotkeysDialog ==
    /\ cpc = "idle"
    /\ nCmds + 2 <= MaxCmds
    /\ cpc' = "dlg_open"
    /\ UNCHANGED <<capVars, codecVars, ghostVars, regVars, osHot, foreign, msgQ, cmd_q, event_q, resp, caller,
                   hotkeys, old_map, myCmd, file, recording, ui, dispatched,
                   histVars, cntVars>>

\* open_hotkeys_dialog: wait_window returns; dlg.result is None or a map
CloseHotkeysDialog ==
    /\ cpc = "dlg_open"
    /\ \/ /\ cpc' = "idle"
          /\ UNCHANGED <<hotkeys, old_map, caller>>
       \/ \E new_map \in DialogResults :
             /\ old_map' = hotkeys
             /\ hotkeys' = new_map
             /\ caller' = "dlg1"
             /\ cpc' = "reg_put"
    /\ UNCHANGED <<capVars, codecVars, ghostVars, regVars, osHot, foreign, msgQ, cmd_q, event_q, resp, myCmd,
                   file, recording, ui, dispatched, histVars, cntVars>>

\* open_hotkeys_dialog: save_hotkeys(self.hotkeys), showinfo
SaveHotkeys ==
    /\ cpc = "dlg_save"
    /\ file' = save_hotkeys(hotkeys)
    /\ ui' = ui + 1
    /\ cpc' = "idle"
    /\ UNCHANGED <<capVars, codecVars, ghostVars, regVars, osHot, foreign, msgQ, cmd_q, event_q, resp, caller,
                   hotkeys, old_map, myCmd, recording, dispatched, histVars,
                   cntVars>>

\* the recorder of the hotkeys dialog sets the flag and opens
\* capture_hotkey_dialog
StartCapture ==
    /\ cpc = "dlg_open"
    /\ recording' = TRUE
    /\ cpc' = "capture"
    /\ UNCHANGED <<capVars, codecVars, ghostVars, regVars, osHot, foreign, msgQ, cmd_q, event_q, resp, caller,
                   hotkeys, old_map, myCmd, file, ui, dispatched, histVars,
                   cntVars>>

\* capture_hotkey_dialog returns and the recorder clears the flag
EndCapture ==
    /\ cpc = "capture"
    /\ recording' = FALSE
    /\ cpc' = "dlg_open"
    /\ UNCHANGED <<capVars, codecVars, ghostVars, regVars, osHot, foreign, msgQ, cmd_q, event_q, resp, caller,
                   hotkeys, old_map, myCmd, file, ui, dispatched, histVars,
                   cntVars>>

\* a check_queue that does not look at the flag
Suppressed_Never(flag) == FALSE

\* check_queue drops a "hotkey" item: RECORDING_PAUSE_HOTKEYS.is_set()
Suppressed(flag) == flag

\* the message boxes check_queue shows for an "error" item: it only logs
ErrorBoxes(item) == 0

\* check_queue: one item of self.event_q
CheckQueue ==
    /\ cpc \in {"idle", "dlg_open", "capture"}
    /\ event_q # <<>>
    /\ event_q' = Tail(event_q)
    /\ LET item == Head(event_q)
       IN  IF item.kind = "hotkey"
           THEN /\ dispatched' = IF Suppressed(recording) THEN dispatched
                                 ELSE Append(dispatched, item.id)
                /\ ui' = ui
           ELSE /\ ui' = ui + ErrorBoxes(item)
                /\ dispatched' = dispatched
    /\ during' = Tail(during)
    /\ UNCHANGED <<capVars, codecVars, replied, lastPut, regVars, osHot, foreign, msgQ, cmd_q, resp, cpc, caller,
                   hotkeys, old_map, myCmd, file, recording, histVars, cntVars>>

\* quit: self.cmd_q.put(("stop", resp))
QuitPut ==
    /\ cpc = "idle"
    /\ nCmds + 1 <= MaxCmds
    /\ nCmds' = nCmds + 1
    /\ cmd_q' = Append(cmd_q, [type |-> "stop", map |-> <<>>, id |-> nCmds + 1])
    /\ myCmd' = nCmds + 1
    /\ cpc' = "quit_post"
    /\ UNCHANGED <<capVars, codecVars, ghostVars, regVars, osHot, foreign, msgQ, event_q, resp, caller,
                   hotkeys, old_map, file, recording, ui, dispatched,
                   histVars, nEnv>>

\* quit: PostThreadMessageW(tid, WAKE_MSG, 0, 0)
QuitPost ==
    /\ cpc = "quit_post"
    /\ msgQ' = PostWake(msgQ)
    /\ cpc' = "quit_wait"
    /\ UNCHANGED <<capVars, codecVars, ghostVars, regVars, osHot, foreign, cmd_q, event_q, resp, caller,
                   hotkeys, old_map, myCmd, file, recording, ui, dispatched,
                   histVars, cntVars>>

\* quit: resp.get(timeout=1.0), reply or timeout, then self.root.destroy()
QuitWait ==
    /\ cpc = "quit_wait"
    /\ GetReturns(resp[myCmd])
    /\ cpc' = "destroyed"
    /\ resp' = [resp EXCEPT ![myCmd] = NoReply]
    /\ UNCHANGED <<capVars, codecVars, ghostVars, regVars, osHot, foreign, msgQ, cmd_q, event_q, caller,
                   hotkeys, old_map, myCmd, file, recording, ui, dispatched,
                   histVars, cntVars>>

\* the steps the Controller takes once a handler has started: its calls
\* return and the timer of check_queue fires
ControllerRuns ==
    \/ RegPut \/ RegPost \/ RegWait \/ SaveHotkeys \/ CheckQueue
    \/ QuitPost \/ QuitWait

\* with the steps only the user starts
ControllerNext ==
    \/ ControllerRuns
    \/ OpenHotkeysDialog \/ CloseHotkeysDialog \/ StartCapture \/ EndCapture
    \/ QuitPut

(***************************************************************************)
(* Environment: the user, other programs.                                  *)
(***************************************************************************)
\* the user presses a combination that is a hot key of the thread: the
\* system posts WM_HOTKEY with its id to the thread
KeyPress ==
    /\ nEnv < MaxEnvEvents
    /\ ~Exited
    /\ \E h \in {g \in osHot : g[2] \in Combos} :
          /\ msgQ' = Append(msgQ, HotkeyMsg(h[1]))
          /\ nEnv' = nEnv + 1
    /\ UNCHANGED <<capVars, codecVars, ghostVars, regVars, osHot, foreign, cmd_q, event_q, resp, ctlVars,
                   histVars, nCmds>>

\* another program registers a free combination, or releases one it owns
OtherProgram ==
    /\ nEnv < MaxEnvEvents
    /\ nEnv' = nEnv + 1
    /\ \E b \in ForeignCombos :
          \/ /\ b \notin foreign
             /\ \A h \in osHot : h[2] # b
             /\ foreign' = foreign \cup {b}
          \/ /\ b \in foreign
             /\ foreign' = foreign \ {b}
    /\ UNCHANGED <<capVars, codecVars, ghostVars, regVars, osHot, msgQ, cmd_q, event_q, resp, ctlVars,
                   histVars, nCmds>>

\* a WM_QUIT posted to the thread from outside the program
ExternalQuit ==
    /\ nEnv < MaxEnvEvents
    /\ ~Exited
    /\ nEnv' = nEnv + 1
    /\ msgQ' = Append(msgQ, QuitMsg)
    /\ UNCHANGED <<capVars, codecVars, ghostVars, regVars, osHot, foreign, cmd_q, event_q, resp, ctlVars,
                   histVars, nCmds>>

EnvNext == KeyPress \/ OtherProgram \/ ExternalQuit

Next == RegistryNext \/ ControllerNext \/ EnvNext

(***************************************************************************)
(* Binding codec: parse_hotkey_string and hotkey_to_string on their own.   *)
(***************************************************************************)
\* the bindings given to hotkey_to_string: every modifier mask with every
\* code the recorder samples, and the codes above 255 that
\* parse_hotkey_string returns for a character of TextChars or of a
\* canonical text
CodecBindings ==
    {[mods |-> m, vk |-> v] : m \in 0..15, v \in (VK_MIN..VK_MAX) \cup {376, 924}}

\* the names of the modifiers of a mask, in the order Ctrl, Alt, Shift, Win
ModNames(m) ==
    (IF BitAnd(m, MOD_CONTROL) THEN << <<67, 116, 114, 108>> >> ELSE <<>>)
    \o (IF BitAnd(m, MOD_ALT) THEN << <<65, 108, 116>> >> ELSE <<>>)
    \o (IF BitAnd(m, MOD_SHIFT) THEN << <<83, 104, 105, 102, 116>> >> ELSE <<>>)
    \o (IF BitAnd(m, MOD_WIN) THEN << <<87, 105, 110>> >> ELSE <<>>)

\* the keys of a canonical text: a name of NAMED_VK, F1 to F24, or one
\* printable character that is its own upper case
CanonicalKeys ==
    {NAMED_VK[v] : v \in DOMAIN NAMED_VK}
    \cup {<<70>> \o StrOf(n) : n \in 1..24}
    \cup {<<c>> : c \in {d \in (33..126) \cup (161..255) : UpperChar(d) = <<d>>}}

CanonicalTexts ==
    {JoinPlus(Append(ModNames(m), k)) : m \in 0..15, k \in CanonicalKeys}

\* the characters of the other texts: + space F 0 1 2 5 superscript-2
\* sharp-s a U p
TextChars == {43, 32, 70, 48, 49, 50, 53, 178, 223, 97, 85, 112}

OtherTexts == UNION {[1..n -> TextChars] : n \in 0..MaxTextLen}

\* hotkey_to_string(mods, vk), and parse_hotkey_string of its result
FormatThenParse ==
    /\ codec_out = Pending("format")
    /\ codec_out' = [op |-> "formatted",
                     text |-> hotkey_to_string(codec_b.mods, codec_b.vk),
                     parsed |-> parse_hotkey_string(
                                    hotkey_to_string(codec_b.mods, codec_b.vk))]
    /\ UNCHANGED <<appVars, capVars, codec_b, codec_s>>

\* parse_hotkey_string(s), and hotkey_to_string of its result if it
\* returned one
ParseThenFormat ==
    /\ codec_out = Pending("parse")
    /\ LET r == parse_hotkey_string(codec_s)
       IN  codec_out' = [op |-> "parsed",
                         text |-> IF r.ok THEN hotkey_to_string(r.mods, r.vk)
                                  ELSE <<>>,
                         parsed |-> r]
    /\ UNCHANGED <<appVars, capVars, codec_b, codec_s>>

CodecStart ==
    \/ /\ codec_out = Pending("format")
       /\ codec_b \in CodecBindings
       /\ codec_s = <<>>
    \/ /\ codec_out = Pending("parse")
       /\ codec_b = [mods |-> 0, vk |-> 0]
       /\ codec_s \in CanonicalTexts \cup OtherTexts

CodecNext == FormatThenParse \/ ParseThenFormat

\* a call of the codec in a program that does nothing else meanwhile
CodecInit == AppStart({NoFile}) /\ CaptureStart /\ CodecStart

CodecSpec == CodecInit /\ [][CodecNext]_vars

(***************************************************************************)
(* Capture session: capture_hotkey_dialog.                                 *)
(***************************************************************************)
\* the keys of the user, and the virtual-key codes for which
\* GetAsyncKeyState reports a key down: Ctrl and Alt stand for a modifier
\* seen under its generic code only, LCtrl for the left Ctrl key, which is
\* down under VK_CONTROL (0x11) and under VK_LCONTROL (0xA2)
KeyCodes ==
    [Ctrl |-> {17}, LCtrl |-> {17, 162}, Alt |-> {18}, K |-> {75}, A |-> {65}]

\* GetAsyncKeyState(vk) & 0x8000 while the keys hs are held
GetAsyncKeyState(hs, vk) == \E k \in hs : vk \in KeyCodes[k]

\* poll: mods = 0; if GetAsyncKeyState(0x11) ...: mods |= MOD_CONTROL; ...
SampledMods(hs) ==
    (IF GetAsyncKeyState(hs, 17) THEN MOD_CONTROL ELSE 0)
    + (IF GetAsyncKeyState(hs, 18) THEN MOD_ALT ELSE 0)
    + (IF GetAsyncKeyState(hs, 16) THEN MOD_SHIFT ELSE 0)
    + (IF GetAsyncKeyState(hs, 91) \/ GetAsyncKeyState(hs, 92) THEN MOD_WIN ELSE 0)

\* poll: the codes the loop over range(VK_MIN, VK_MAX + 1) skips
SkippedCodes == {17, 18, 16, 91, 92}

\* poll: current_non_mod
CurrentNonMod(hs) ==
    {vk \in VK_MIN..VK_MAX : vk \notin SkippedCodes /\ GetAsyncKeyState(hs, vk)}

\* a poll that takes any poll after the press for the release
ReleaseSeen_Early(now, prev) == prev # {}

\* poll: "Detect press start" and "Detect release"
PressStart(now, prev) == now # {} /\ prev = {}
ReleaseSeen(now, prev) == now = {} /\ prev # {}

\* a commit_capture that appends every combo
Appends_Always(caps, hk) == TRUE

\* commit_capture appends hk: "if not captures or captures[-1] != hk"
Appends(caps, hk) == caps = <<>> \/ caps[Len(caps)] # hk

\* captures after commit_capture(vk, mods)
commit_capture(caps, vk, mods) ==
    IF Appends(caps, hotkey_to_string(mods, vk))
    THEN Append(caps, hotkey_to_string(mods, vk))
    ELSE caps

\* "return captures if captures else None"
ReturnValue(caps) == IF caps # <<>> THEN ReturnedList(caps) ELSE ReturnedNone

\* a commit with the modifiers held at the poll that sees the release
CommittedMods_AtRelease(at_press, at_release) == at_release

\* the modifiers poll passes to commit_capture: state["last_mods"], stored
\* at the press start, not the mods of the poll that sees the release
CommittedMods(at_press, at_release) == at_press

\* the history of the keys seen held by the polls, without repetitions
Seen(h, hs) == IF h # <<>> /\ h[Len(h)] = hs THEN h ELSE Append(h, hs)

\* poll while the session is open and the time is not up
Poll ==
    /\ ~done
    /\ LET mods == SampledMods(held)
           current_non_mod == CurrentNonMod(held)
       IN  /\ IF PressStart(current_non_mod, prev_non_mod)
              THEN \* vk = next(iter(current_non_mod)): a set has no order
                   /\ \E vk \in current_non_mod : last_non_mod_vk' = vk
                   /\ last_mods' = mods
                   /\ pressed_non_mod' = TRUE
                   /\ UNCHANGED <<captures, lastCommit>>
              ELSE IF ReleaseSeen(current_non_mod, prev_non_mod)
              THEN /\ IF pressed_non_mod /\ last_non_mod_vk # 0
                      THEN /\ captures' = commit_capture(captures, last_non_mod_vk,
                                                      CommittedMods(last_mods, mods))
                           /\ lastCommit' = [vk |-> last_non_mod_vk,
                                            mods |-> CommittedMods(last_mods, mods)]
                      ELSE UNCHANGED <<captures, lastCommit>>
                   /\ pressed_non_mod' = FALSE
                   /\ last_non_mod_vk' = 0
                   /\ last_mods' = last_mods
              ELSE UNCHANGED <<captures, lastCommit, last_non_mod_vk, last_mods,
                               pressed_non_mod>>
           /\ prev_non_mod' = current_non_mod
    /\ hist' = Seen(hist, held)
    /\ unseen' = 0
    /\ UNCHANGED <<appVars, codecVars, held, done, capResult, ended, missed,
                   nKeys>>

\* poll when elapsed > timeout: state["done"] = True, top.destroy();
\* wait_window returns and capture_hotkey_dialog returns
PollTimeout ==
    /\ ~done
    /\ done' = TRUE
    /\ ended' = "timeout"
    /\ capResult' = ReturnValue(captures)
    /\ UNCHANGED <<appVars, codecVars, held, captures, last_non_mod_vk,
                   last_mods, pressed_non_mod, prev_non_mod, hist, unseen,
                   missed, lastCommit, nKeys>>

\* on_save, on_cancel: close_and_return(); wait_window returns and
\* capture_hotkey_dialog returns
CloseAndReturn ==
    /\ ~done
    /\ done' = TRUE
    /\ ended' \in {"save", "cancel"}
    /\ capResult' = ReturnValue(captures)
    /\ UNCHANGED <<appVars, codecVars, held, captures, last_non_mod_vk,
                   last_mods, pressed_non_mod, prev_non_mod, hist, unseen,
                   missed, lastCommit, nKeys>>

\* the user presses or releases a key while the session is open
KeyChange ==
    /\ ~done
    /\ nKeys < MaxKeyEvents
    /\ nKeys' = nKeys + 1
    /\ \E k \in DOMAIN KeyCodes :
          held' = IF k \in held THEN held \ {k} ELSE held \cup {k}
    /\ unseen' = IF unseen = 0 THEN 1 ELSE unseen
    /\ missed' = (missed \/ unseen > 0)
    /\ UNCHANGED <<appVars, codecVars, captures, last_non_mod_vk, last_mods,
                   pressed_non_mod, done, prev_non_mod, capResult, ended, hist,
                   lastCommit>>

CaptureNext == Poll \/ PollTimeout \/ CloseAndReturn \/ KeyChange

\* a session opened in a program that does nothing else meanwhile
CaptureInit == AppStart({NoFile}) /\ CaptureStart /\ CodecIdle

CaptureSpec == CaptureInit /\ [][CaptureNext]_vars

Spec == Init /\ [][Next]_vars

\* the hotkey thread and the Controller's thread are scheduled: a step
\* that stays possible is taken
FairSpec ==
    /\ Spec
    /\ WF_vars(RegistryRuns)
    /\ WF_vars(ControllerRuns)


(***************************************************************************)
(* Properties.                                                             *)
(***************************************************************************)
\* the thread is in the middle of a Register command
InRegister == rpc \in {"reg_loop", "reg_finish"}

\* the step that ends a Register command: rollback if it failed, and reply
RegisterEnds == rpc = "reg_finish" /\ rpc' = "drain"

\* C1: a Register command that hit a failure, at whatever position of its
\* map, is answered Failed, and when the reply is sent the thread has no hot
\* key left: neither those subscribed earlier in the same call nor those of
\* an earlier command.
C1_FailedRegisterLeavesNothing ==
    [][(RegisterEnds /\ failed # NoFail) =>
          /\ resp'[cur.id].tag = "failed"
          /\ osHot' = {}]_vars

\* a Register has failed after it subscribed at least one entry
C1_Witness ==
    /\ rpc = "reg_finish"
    /\ failed # NoFail
    /\ registered_ids # <<>>
    /\ osHot # {}

\* C2 as stated: whenever the thread is running and not in the middle of a
\* Register, its hot keys are those of the last Register answered Ok.
C2_SetIsLastOkMap ==
    (~InRegister /\ ~Exited /\ rpc # "stop") => osHot = BindingsOf(lastOkMap)

\* C2, amended: outside a Register, the hot keys of the thread are those of
\* the last command's map if that command was a Register answered Ok, and
\* none otherwise (no command yet, a failed Register, Stop, an exception).
C2_SetIsLastMapIfOk ==
    ~InRegister =>
        osHot = IF lastResult = "ok" THEN BindingsOf(lastOkMap) ELSE {}

\* a Register failed after an earlier one had succeeded, and the thread is
\* blocked in GetMessageW
C2_Witness ==
    /\ rpc = "wait"
    /\ lastResult = "failed"
    /\ lastOkMap # <<>>

\* C3: when a Register succeeds right after another successful Register, the
\* hot keys are exactly those of the second map; no binding of the first map
\* that the second does not have survives.
C3_SecondMapReplacesFirst ==
    [][(RegisterEnds /\ failed = NoFail /\ lastResult = "ok") =>
          /\ resp'[cur.id].tag = "ok"
          /\ osHot' = BindingsOf(cur.map)
          /\ \A h \in BindingsOf(lastOkMap) \ BindingsOf(cur.map) :
                h \notin osHot']_vars

\* a second Register in a row is about to be answered Ok, and the first map
\* had bindings the second has not
C3_Witness ==
    /\ rpc = "reg_finish"
    /\ failed = NoFail
    /\ lastResult = "ok"
    /\ BindingsOf(lastOkMap) \ BindingsOf(cur.map) # {}

\* the number of calls at the head of cs that succeeded
RECURSIVE LeadingOk(_)
LeadingOk(cs) ==
    IF cs = <<>> \/ ~Head(cs).ok THEN 0 ELSE 1 + LeadingOk(Tail(cs))

\* C4: a Register passes the entries of its map to RegisterHotKey in the
\* map's order.  With j the number of entries subscribed before the first
\* failure: the reply is Ok exactly when j is the length of the map;
\* otherwise the reply is Failed and names entry j+1, and no entry after
\* j+1 was passed to the operating system.
C4_OrderAndFirstFailure ==
    [][RegisterEnds =>
          LET m == cur.map
              j == LeadingOk(calls)
          IN  /\ j <= Len(m)
              /\ Len(calls) <= j + 1
              /\ \A i \in 1..Len(calls) : i <= Len(m) /\ calls[i].action = m[i][1]
              /\ (resp'[cur.id].tag = "ok") = (j = Len(m))
              /\ j < Len(m) =>
                    /\ resp'[cur.id].tag = "failed"
                    /\ resp'[cur.id].action = m[j + 1][1]]_vars

\* a Register failed at an entry that has entries before and after it
C4_Witness ==
    /\ rpc = "reg_finish"
    /\ failed # NoFail
    /\ 1 < idx /\ idx < Len(cur.map)
    /\ failed.action = cur.map[idx][1]

\* the Controller has issued Stop and posted its wake-up message
StopIssued == cpc \in {"quit_wait", "destroyed"}

\* the thread takes no further step by itself: it has left its function, or
\* it is blocked in GetMessageW with no message to retrieve
AtRest == Exited \/ (rpc = "wait" /\ msgQ = <<>>)

\* the thread has answered a Stop and has no hot key
StopAnswered == lastResult = "stopped" /\ osHot = {}

\* C5 as stated: whatever state the thread was in when Stop was issued, the
\* Stop is answered and no hot key is left.  After Stop no command follows
\* and the thread has finitely many steps left, so "eventually" is: once the
\* thread has come to rest.
C5_StopAlwaysAnswered == (StopIssued /\ AtRest) => StopAnswered

\* C5, amended: a Stop is answered, with no hot key left, unless the thread
\* has left its loop before it dequeued the Stop (WM_QUIT from outside, or
\* an exception); such a Stop is never answered.  A Stop enqueued right
\* after a Register whose reply was not read is answered like any other.
C5_StopAnsweredUnlessLoopLeft ==
    /\ (StopIssued /\ AtRest) => (StopAnswered \/ rpc \in {"quit", "crashed"})
    /\ rpc = "returned" => StopAnswered
    /\ rpc \in {"quit", "crashed"} => lastResult # "stopped"

\* the thread has answered a Stop that was enqueued while the reply of the
\* Register before it was still unread (that Register had timed out)
C5_Witness ==
    /\ StopIssued
    /\ StopAnswered
    /\ rpc = "returned"
    /\ \E i \in 1..MaxCmds : i # myCmd /\ resp[i].tag \in {"ok", "failed"}

\* the "hotkey" events of a queue
HotkeyEvents(q) == SelectSeq(q, LAMBDA e : e.kind = "hotkey")

\* the step appends an "error" event to the event queue
ErrorEnqueued ==
    /\ Len(event_q') = Len(event_q) + 1
    /\ event_q'[Len(event_q')].kind = "error"

\* C6: each WM_HOTKEY message the thread retrieves yields exactly one
\* "hotkey" event with the message's id, enqueued before the thread gets
\* back to GetMessageW; and a "hotkey" event is enqueued by no other step.
C6_OneEventPerHotkeyMessage ==
    /\ [](owed \in {0, 1} /\ (owed = 1 <=> rpc = "got_hotkey"))
    /\ [][(rpc = "got_hotkey" /\ rpc' # rpc) =>
             event_q' = Append(event_q, [kind |-> "hotkey", id |-> msg.wParam])]_vars
    /\ [][Len(HotkeyEvents(event_q')) > Len(HotkeyEvents(event_q)) =>
             rpc = "got_hotkey"]_vars

\* the thread has enqueued the event of a hotkey message and is on its way
\* back to GetMessageW
C6_Witness ==
    /\ rpc = "dispatch"
    /\ owed = 0
    /\ event_q # <<>>
    /\ event_q[Len(event_q)] = [kind |-> "hotkey", id |-> msg.wParam]

\* C7 as stated: a step of the thread that enqueues an "error" event is its
\* last: the thread has left its loop, it neither blocks in GetMessageW nor
\* processes a command again.
C7_FaultEndsThread == [][ErrorEnqueued => Exited']_vars

\* the Controller takes an "error" event from the event queue
TakesError ==
    /\ event_q # <<>>
    /\ Head(event_q).kind = "error"
    /\ event_q' = Tail(event_q)

\* register_all_hotkeys returns without an Ok reply
RegisterNotOk == cpc = "reg_wait" /\ cpc' # cpc /\ resp[myCmd].tag # "ok"

\* C8 as stated: the Controller shows a message box for every "error" event
\* it takes from the event queue and for every Register that was answered
\* Failed or not answered in time.
C8_NoSilentFailure ==
    [][(TakesError \/ RegisterNotOk) => ui' > ui]_vars

\* the Controller takes a "hotkey" event from the event queue
TakesHotkey ==
    /\ event_q # <<>>
    /\ Head(event_q).kind = "hotkey"
    /\ event_q' = Tail(event_q)

C10_SaveOnlyAfterOk ==
    /\ [](cpc = "dlg_save" => (caller = "dlg1" /\ hotkeys = lastOkMap))
    /\ [][cpc' = "dlg_save" /\ cpc # "dlg_save" =>
             /\ cpc = "reg_wait"
             /\ resp[myCmd].tag = "ok"
             /\ lastOkMap = hotkeys]_vars
    /\ [][file' # file => (cpc = "dlg_save" /\ file' = save_hotkeys(lastOkMap))]_vars

\* the dialog's map, other than the one registered before, was answered Ok
\* and is about to be saved
C10_Witness ==
    /\ cpc = "dlg_save"
    /\ hotkeys # old_map
    /\ file # save_hotkeys(hotkeys)

\* C11 as stated: the loaded map has every action, those missing from the
\* file with their defaults, and keeps the file's other keys; and a key
\* that is no action never makes a Register fail.
C11_ExtraKeysIgnored ==
    /\ [](/\ DOMAIN ACTION_IDS \subseteq Keys(load_hotkeys(file))
          /\ file.exists => \A i \in 1..Len(file.data) :
                               load_hotkeys(file)[i] = file.data[i])
    /\ [][(RegisterEnds /\ failed # NoFail) =>
             failed.action \in DOMAIN ACTION_IDS]_vars

\* the capture session has returned
Returned == capResult.tag # "running"

\* C12 as stated: however the session ends, it returns the list of the
\* combos committed, in commit order; the empty list when there are none.
C12_ReturnsCommittedList ==
    Returned => (ended \in {"save", "cancel", "timeout"}
                 /\ capResult = ReturnedList(captures))

\* the keys that are modifiers, and the virtual-key code of the others
ModKeys == {"Ctrl", "LCtrl", "Alt"}
CodeOf(k) == CHOOSE vk \in KeyCodes[k] : TRUE

\* the polls saw, one change at a time: modifiers go down, then key k, then
\* one key after the other goes up until none is held
PressThenRelease(h, p, k) ==
    /\ p \in 1..(Len(h) - 1)
    /\ \A i \in 1..(p - 1) : h[i] \subseteq ModKeys /\ h[i] \subseteq h[i + 1]
    /\ k \in h[p] /\ h[p] \ {k} \subseteq ModKeys
    /\ p > 1 => h[p] = h[p - 1] \cup {k}
    /\ \A i \in (p + 1)..Len(h) : h[i] \subseteq h[i - 1] /\ h[i] # h[i - 1]
    /\ h[Len(h)] = {}

\* C13 as stated: when the user held the modifiers of M, pressed key K,
\* released everything and the session timed out, every change seen by a
\* poll, the session returns the one-element list [Format(M, K)].
C13_PressReleaseTimeout ==
    \A k \in DOMAIN KeyCodes \ ModKeys : \A p \in 1..Len(hist) :
        (/\ Returned /\ ended = "timeout" /\ ~missed /\ unseen = 0
         /\ PressThenRelease(hist, p, k))
        => capResult =
              ReturnedList(<<hotkey_to_string(SampledMods(hist[p]), CodeOf(k))>>)

\* C14: the list gets an entry only at a poll that sees no key down that is
\* not a modifier, and the entry is the combo tracked since the press: a key
\* that is still down when the session ends has added nothing for that press.
C14_UnreleasedKeyNotReturned ==
    /\ [][captures' # captures =>
             /\ CurrentNonMod(held) = {}
             /\ pressed_non_mod
             /\ captures' = Append(captures,
                               hotkey_to_string(last_mods, last_non_mod_vk))]_vars
    /\ [](Returned => capResult.list = captures)

\* the session has returned nothing while the key it tracked was still down
C14_Witness ==
    /\ Returned
    /\ pressed_non_mod
    /\ last_non_mod_vk \in CurrentNonMod(held)
    /\ capResult.list = <<>>

\* the poll calls commit_capture
Commits ==
    /\ prev_non_mod # {} /\ prev_non_mod' = {}
    /\ pressed_non_mod /\ last_non_mod_vk # 0

ModifierCodes == {16, 17, 18, 91, 92} \cup (160..165)

\* C16 as stated: the key of a committed combo is never a modifier, so that
\* pressing and releasing modifier keys only commits nothing.
C16_ModifiersNeverCommitted ==
    /\ lastCommit.vk \notin ModifierCodes
    /\ (\A i \in 1..Len(hist) : hist[i] \subseteq ModKeys) /\ ~missed /\ unseen = 0
          => captures = <<>>

\* C17 as stated: Parse(Format(b)) = b for every binding b.
C17_ParseOfFormat ==
    codec_out.op = "formatted" =>
        codec_out.parsed = ParseOk(codec_b.mods, codec_b.vk)

\* C18 as stated: Format(Parse(s)) = s for every canonical text s.
C18_FormatOfParse ==
    (codec_out.op = "parsed" /\ codec_s \in CanonicalTexts) =>
        (codec_out.parsed.ok /\ codec_out.text = codec_s)

\* the tokens of a text and those that name no modifier
Tokens(s) == StripNonEmpty(SplitPlus(Strip(s), <<>>))
ModifierWords ==
    {<<99, 116, 114, 108>>, <<99, 111, 110, 116, 114, 111, 108>>,
     <<97, 108, 116>>, <<115, 104, 105, 102, 116>>, <<119, 105, 110>>,
     <<119, 105, 110, 100, 111, 119, 115>>}
KeyTokens(s) == SelectSeq(Tokens(s), LAMBDA p : Lower(p) \notin ModifierWords)

\* a token that is F or f followed by a decimal number
IsFNumber(k) ==
    /\ Len(k) > 1 /\ k[1] \in {70, 102}
    /\ \A i \in 2..Len(k) : k[i] \in 48..57

\* the cases in which C19 says Parse fails, for the last key token k
FailureCase(s) ==
    \/ Strip(s) = <<>>
    \/ KeyTokens(s) = <<>>
    \/ LET k == KeyTokens(s)[Len(KeyTokens(s))]
       IN  \/ IsFNumber(k) /\ IntOf(Tail(k)) \notin 1..24
           \/ ~IsFNumber(k) /\ Len(k) > 1 /\ Lower(k) \notin DOMAIN named

\* C19 as stated: Parse fails in the four cases (empty text, no key token,
\* F with a number outside 1..24, a longer token that is no named key) and
\* returns a binding for every other text.
C19_ParseFailsExactly ==
    codec_out.op = "parsed" => (~codec_out.parsed.ok <=> FailureCase(codec_s))

\* the thread is blocked in GetMessageW and no message is queued for it
Blocked == rpc = "wait" /\ msgQ = <<>>

\* the Controller has put a command and is about to post its wake-up
WakeComing == cpc \in {"reg_post", "quit_post"}

\* C20: no wake-up is lost.  While the thread runs, a command in the
\* command queue never leaves it blocked in the OS wait with nothing to wake
\* it: the thread has yet to look at the queue, or a message is queued that
\* ends its wait, or the Controller is between its put and its post.  The
\* thread then dequeues the command on its way back to the wait.
C20_NoLostWakeup ==
    (~Exited /\ cmd_q # <<>>) => (~Blocked \/ WakeComing)

\* the thread saw the queue empty and blocked, then the Controller put a
\* command and posted the wake-up
C20_Witness ==
    /\ rpc = "wait" /\ cmd_q # <<>> /\ msgQ = <<WakeMsg>>
    /\ cpc \in {"reg_wait", "quit_wait"}

\* the polls of the history h that detected a press start: a non-modifier
\* code is down and none was at the poll before
PressPolls(h) ==
    {i \in 1..Len(h) : /\ CurrentNonMod(h[i]) # {}
                       /\ (i = 1 \/ CurrentNonMod(h[i - 1]) = {})}

\* the last of them
RECURSIVE MaxOf(_)
MaxOf(S) ==
    IF S = {} THEN 0
    ELSE LET x == CHOOSE y \in S : TRUE
             m == MaxOf(S \ {x})
         IN  IF x > m THEN x ELSE m

\* C22: the modifiers of a committed combo are those sampled at the poll
\* that detected the press of its key, whatever modifiers were pressed or
\* released between that poll and the poll that saw the release.
C22_ModsOfPressPoll ==
    [][lastCommit' # lastCommit =>
          /\ PressPolls(hist') # {}
          /\ lastCommit'.mods = SampledMods(hist'[MaxOf(PressPolls(hist'))])]_vars

\* Ctrl+K was committed although Ctrl was released before K was
C22_Witness ==
    /\ lastCommit = [vk |-> 75, mods |-> MOD_CONTROL]
    /\ captures = <<hotkey_to_string(MOD_CONTROL, 75)>>
    /\ Len(hist) >= 3
    /\ hist[Len(hist) - 2] = {"Ctrl", "K"}
    /\ hist[Len(hist) - 1] = {"K"}
    /\ hist[Len(hist)] = {}

\* the non-modifier keys among the keys hs
KeysDown(hs) == hs \ ModKeys

\* the polls of the history h that begin a press-release cycle: a
\* non-modifier key is down and none was at the poll before
CyclePolls(h) ==
    {i \in 1..Len(h) : /\ KeysDown(h[i]) # {}
                       /\ (i = 1 \/ KeysDown(h[i - 1]) = {})}

\* C23 as stated: a combo is committed only at the end of a press-release
\* cycle of non-modifier keys, once per cycle, and its key is a key that was
\* down at the first poll of the cycle; keys that went down later in the
\* cycle are ignored.
C23_FirstKeyOfCycle ==
    [][Commits =>
          /\ CyclePolls(hist) # {}
          /\ KeysDown(hist[Len(hist)]) # {}
          /\ KeysDown(held) = {}
          /\ \E k \in KeysDown(hist[MaxOf(CyclePolls(hist))]) :
                lastCommit'.vk \in KeyCodes[k]]_vars

\* the thread calls GetMessageW: it comes to the wait from elsewhere, or it
\* is back in it after the call returned a message or an error
EntersWait ==
    /\ rpc' = "wait"
    /\ \/ rpc # "wait"
       \/ Len(msgQ') < Len(msgQ)
       \/ Len(event_q') > Len(event_q)

\* C21: the thread enters the blocking wait only from the command loop and
\* only when get_nowait found the queue empty; no command is in progress
\* and every command enqueued so far has had its reply put.
C21_DrainsBeforeWait ==
    [][EntersWait =>
          /\ rpc = "drain" /\ cmd_q = <<>> /\ cur = NoCmd
          /\ \A id \in 1..nCmds : id \in replied]_vars

\* the thread waits again after a second command, which a wake-up brought
C21_Witness ==
    rpc = "wait" /\ replied = {1, 2} /\ cmd_q = <<>> /\ msgQ = <<>>

\* the Controller is inside register_all_hotkeys or quit
InCall == cpc \in {"reg_put", "reg_post", "reg_wait", "quit_post", "quit_wait"}

\* the next step of the call can be taken
CallGoesOn == ENABLED (RegPut \/ RegPost \/ RegWait \/ QuitPost \/ QuitWait)

\* C24: the Controller never blocks on the thread.  Wherever it is inside
\* register_all_hotkeys or quit, its next step can be taken, whether the
\* thread has exited, has crashed or has put no reply; each call has at most
\* three steps, so it returns.
C24_CallsAlwaysGoOn == InCall => CallGoesOn

\* a call has returned although the thread had ended and its command is
\* still in the queue, unanswered
C24_Witness ==
    /\ Exited /\ cpc = "idle"
    /\ cmd_q # <<>> /\ cmd_q[Len(cmd_q)].id = myCmd
    /\ myCmd \notin replied

\* the action ids of the Registered Set
RegisteredActions == {h[1] : h \in osHot}

\* the thread puts an item into the event queue
EventPut == Len(event_q') > Len(event_q)

\* C25 as stated: every Fired(a) event the thread enqueues names an action
\* that is in the Registered Set at the moment of the enqueue.
C25_FiredIsRegistered ==
    [][(EventPut /\ event_q'[Len(event_q')].kind = "hotkey") =>
          event_q'[Len(event_q')].id \in RegisteredActions]_vars

\* check_queue takes an item from the event queue
EventTaken == event_q # <<>> /\ event_q' = Tail(event_q) /\ during' = Tail(during)

\* C26 as stated: a Fired event that was enqueued while a capture session
\* was open is never dispatched to an action, whenever check_queue takes it.
C26_FiredInSessionNeverDispatched ==
    [][(EventTaken /\ Head(event_q).kind = "hotkey" /\ Head(during)) =>
          dispatched' = dispatched]_vars

\* C27 as stated: when the thread has left its loop, by a Stop command, by
\* WM_QUIT or by an exception, no hot key of the Registered Set is left
\* registered.
C27_NothingRegisteredAfterExit == Exited => osHot = {}

\* open_hotkeys_dialog has run with a result and has returned
DialogFlowDone == cpc = "idle" /\ caller \in {"dlg1", "dlg2"}

\* the thread has answered every command and waits
RegistryIdle == rpc = "wait" /\ cmd_q = <<>> /\ cur = NoCmd

\* C28 as stated: when the hotkeys-dialog flow has finished and the thread
\* is idle, the Registered Set is the one App.hotkeys asks for.
C28_SetIsControllersMap ==
    (DialogFlowDone /\ RegistryIdle) => osHot = BindingsOf(hotkeys)

\* C28, amended: when the hotkeys-dialog flow has finished and the thread is
\* idle, the Registered Set is the one App.hotkeys asks for if the last
\* Register the thread answered succeeded, and it is empty if that Register
\* failed, which the Register of the old map can do as well.
C28_SetIsControllersMapIfOk ==
    (DialogFlowDone /\ RegistryIdle) =>
        osHot = IF lastResult = "ok" THEN BindingsOf(hotkeys) ELSE {}

\* the new map failed and the old map is registered again
C28_Witness ==
    /\ DialogFlowDone /\ RegistryIdle
    /\ caller = "dlg2" /\ hotkeys = old_map
    /\ lastResult = "ok" /\ osHot = BindingsOf(old_map) /\ osHot # {}

\* C29: the thread applies the commands in the order of their enqueueing.
\* Whenever it is idle (which it is only while no Stop has reached it), the
\* Registered Set is the one of the last Register enqueued: the set its map
\* asks for if it succeeded, empty if it failed, also when the Controller
\* had stopped waiting for an earlier reply.
C29_SetIsLastEnqueued ==
    (RegistryIdle /\ nCmds > 0) =>
        /\ replied = 1..nCmds
        /\ lastResult \in {"ok", "failed"}
        /\ osHot = IF lastResult = "ok" THEN BindingsOf(lastPut) ELSE {}

\* the Controller gave up waiting for the first Register, whose reply still
\* lies in its slot, and the set is that of a later Register
C29_Witness ==
    /\ RegistryIdle /\ myCmd > 1 /\ resp[1].tag = "ok"
    /\ lastResult = "ok" /\ osHot = BindingsOf(lastPut)
    /\ BindingsOf(lastPut) # BindingsOf(DEFAULT_HOTKEYS)

\* the thread has put the reply of a Stop
StopReplied == lastResult = "stopped"

\* C30: once the thread has put the reply of a Stop it does nothing more:
\* it takes no step, puts no event into the event queue, takes no command
\* and no message, answers nothing and changes no hot key, whatever is
\* still waiting in its queues.
C30_NothingAfterStop ==
    [][StopReplied =>
          /\ regVars' = regVars
          /\ Len(event_q') <= Len(event_q)
          /\ Len(cmd_q') >= Len(cmd_q)
          /\ Len(msgQ') >= Len(msgQ)
          /\ replied' = replied
          /\ osHot' = osHot]_vars

\* the Stop is answered while a hotkey message waits in the message queue
C30_Witness ==
    /\ StopReplied /\ rpc = "returned"
    /\ \E i \in 1..Len(msgQ) : msgQ[i].message = "WM_HOTKEY"

====
